---- MODULE Spec2Model ----
(***************************************************************************)
(* Model of CAssetsVCSSynchronizer (EditorCommon/VersionControl):          *)
(* FindMissingStrings, CompareFilesAndDownloadMissing, GetAllFiles, the    *)
(* asynchronous Sync pipeline and its layers overload.                     *)
(***************************************************************************)
EXTENDS Integers, Sequences, FiniteSets

\* ------------------------------------------------------------------------
\* Bounds of the model
\* ------------------------------------------------------------------------
\* number of IFilesGroupProvider objects that exist
MaxGroups == 2
\* longest file list a group's GetFiles() returns
MaxFiles == 1
\* longest vector handed to FindMissingStrings when it is checked on its own
MaxLen == 3
\* longest list of .lyr files a folder scan returns
MaxScan == 2
\* most layers handed to the layers overload
MaxLayers == 1
\* Sync calls that can be in flight at the same time
MaxCalls == 2
\* longest group list handed to one of several calls in flight
MaxCallGroups == 1

\* ------------------------------------------------------------------------
\* Strings: a path is a sequence of character codes
\* ------------------------------------------------------------------------
\* "a", "B", "b": "B"/"b" differ only in case; "a" < "B" ignoring case but
\* "B" < "a" by character code.
Paths == { <<97>>, <<66>>, <<98>> }

ToLower(c) == IF c >= 65 /\ c <= 90 THEN c + 32 ELSE c

RECURSIVE Strcmp(_, _)
Strcmp(s, t) ==
    IF s = <<>> /\ t = <<>> THEN 0
    ELSE IF s = <<>> THEN -1
    ELSE IF t = <<>> THEN 1
    ELSE IF Head(s) < Head(t) THEN -1
    ELSE IF Head(s) > Head(t) THEN 1
    ELSE Strcmp(Tail(s), Tail(t))

RECURSIVE LowerStr(_)
LowerStr(s) == IF s = <<>> THEN <<>> ELSE <<ToLower(Head(s))>> \o LowerStr(Tail(s))

Stricmp(s, t) == Strcmp(LowerStr(s), LowerStr(t))

\* stl::less_stricmp<string>, the comparator of the two sorts
LessStricmp(s, t) == Stricmp(s, t) < 0

\* operator< of string, the comparator std::set_difference is called with
StringLess(s, t) == Strcmp(s, t) < 0

\* ------------------------------------------------------------------------
\* std::sort(..., less_stricmp): the order of elements that compare equal is
\* unspecified; a build fixes it.  "stable" keeps their input order (what
\* the insertion sort of short ranges does), "reversed" reverses it.
\* ------------------------------------------------------------------------
SortPolicies == { "stable", "reversed" }

\* index before which x goes into the sorted sequence s
RECURSIVE InsertPos(_, _, _, _)
InsertPos(s, x, pol, i) ==
    IF i > Len(s) THEN i
    ELSE IF pol = "stable" /\ LessStricmp(x, s[i]) THEN i
    ELSE IF pol = "reversed" /\ ~LessStricmp(s[i], x) THEN i
    ELSE InsertPos(s, x, pol, i + 1)

InsertSorted(s, x, pol) ==
    LET i == InsertPos(s, x, pol, 1)
    IN  SubSeq(s, 1, i - 1) \o <<x>> \o SubSeq(s, i, Len(s))

RECURSIVE SortStricmp(_, _)
SortStricmp(v, pol) ==
    IF v = <<>> THEN <<>>
    ELSE InsertSorted(SortStricmp(SubSeq(v, 1, Len(v) - 1), pol), v[Len(v)], pol)

\* a mutant: on equivalent elements only the second range advances
RECURSIVE SetDifferenceKeepsEqual(_, _)
SetDifferenceKeepsEqual(v1, v2) ==
    IF v1 = <<>> THEN <<>>
    ELSE IF v2 = <<>> THEN v1
    ELSE IF StringLess(Head(v1), Head(v2))
         THEN <<Head(v1)>> \o SetDifferenceKeepsEqual(Tail(v1), v2)
    ELSE SetDifferenceKeepsEqual(v1, Tail(v2))

\* std::set_difference(first1, last1, first2, last2, out) with operator<
RECURSIVE SetDifference(_, _)
SetDifference(v1, v2) ==
    IF v1 = <<>> THEN <<>>
    ELSE IF v2 = <<>> THEN v1
    ELSE IF StringLess(Head(v1), Head(v2))
         THEN <<Head(v1)>> \o SetDifference(Tail(v1), v2)
    ELSE IF ~StringLess(Head(v2), Head(v1))
         THEN SetDifference(Tail(v1), Tail(v2))
    ELSE SetDifference(v1, Tail(v2))

\* FindMissingStrings(vec1, vec2): the returned vector
FindMissingStrings(v1, v2, pol) ==
    SetDifference(SortStricmp(v1, pol), SortStricmp(v2, pol))

\* ------------------------------------------------------------------------
\* State
\* ------------------------------------------------------------------------
VARIABLES
    sortPolicy,         \* how this build's std::sort orders equivalent elements
    files,              \* files[g]: what group g's GetFiles(false) returns
    status,             \* status[g]: the cached remote status flags of group g
    pc,                 \* which completion the call is waiting for
    kind,               \* which overload was called: "Sync" or "Layers"
    callGroups,         \* the fileGroups argument as the caller passed it
    fileGroups,         \* *pFileGroups, the working list of the call
    afterFilter,        \* *pFileGroups as the relevance filter left it
    folders,            \* the folders argument
    hasCallback,        \* whether the caller passed a callback
    originalFiles,      \* the copy of originalFiles captured by onGetLatest
    firstDeletedIndex,  \* firstDeletedIndex captured by onGetLatest
    pulls,              \* the GetLatest calls made so far: (files, folders)
    pullResults,        \* the CVersionControlResult each finished pull reported
    updated,            \* the groups Update() was called on, in call order
    callbackCount,      \* invocations of the callback object Sync holds
    onDoneCount,        \* runs of the callback the caller passed
    originalLayerFiles, \* originalFiles captured by onSync (layers overload)
    newLayerFiles,      \* newFiles scanned by onSync
    imported,           \* files handed to ImportLayerFromFile, in call order
    unmodified,         \* layers SetModified(false) was called on, in call order
    log,                \* the steps taken, in order
    vec1, vec2,         \* the two vectors of a direct FindMissingStrings call
    arg1, arg2,         \* what they held when the call was made
    missingStrings,     \* what the call returned
    fmDone,             \* whether the call has been made
    calls,              \* calls[s]: what the closures of the s-th call in flight hold
    actor               \* the call whose step ran last (0: none)

vars == << sortPolicy, files, status, pc, kind, callGroups, fileGroups, afterFilter, folders,
           hasCallback, originalFiles, firstDeletedIndex, pulls, pullResults,
           updated, callbackCount, onDoneCount, originalLayerFiles, newLayerFiles,
           imported, unmodified, log, vec1, vec2, arg1, arg2, missingStrings,
           fmDone, calls, actor >>

syncVars == << files, status, pc, kind, callGroups, fileGroups, afterFilter, folders,
               hasCallback, originalFiles, firstDeletedIndex, pulls, pullResults,
               updated, callbackCount, onDoneCount, originalLayerFiles,
               newLayerFiles, imported, unmodified, log >>

fmVars == << vec1, vec2, arg1, arg2, missingStrings, fmDone >>

twoVars == << calls, actor >>

\* the variables of the single call, apart from the groups' files and statuses
soloVars == << pc, kind, callGroups, fileGroups, afterFilter, folders,
               hasCallback, originalFiles, firstDeletedIndex, pulls, pullResults,
               updated, callbackCount, onDoneCount, originalLayerFiles,
               newLayerFiles, imported, unmodified, log >>

\* ------------------------------------------------------------------------
\* Sets the inputs are drawn from
\* ------------------------------------------------------------------------
Range(s) == { s[i] : i \in 1..Len(s) }

SeqsUpTo(S, n) == UNION { [1..k -> S] : k \in 0..n }

Groups == 1..MaxGroups

\* FS::eState_UpdatedRemotely, FS::eState_DeletedRemotely
UpdatedRemotely == "UpdatedRemotely"
DeletedRemotely == "DeletedRemotely"
StatusFlags == { UpdatedRemotely, DeletedRemotely }

FileLists == SeqsUpTo(Paths, MaxFiles)
GroupLists == SeqsUpTo(Groups, MaxGroups)
\* CAssetFilesProvider::ToFileGroups(layers): one group per layer
LayerGroups == { g \in Groups : g <= MaxLayers }
LayerGroupLists == SeqsUpTo(LayerGroups, MaxLayers)
FolderLists == { <<>>, <<"Levels">> }
PullOutcomes == { "success", "failure" }
Sessions == 1..MaxCalls
CallGroupLists == SeqsUpTo(Groups, MaxCallGroups)

\* what GetLayersFilesInFolders can return: the files of a folder are distinct
ScanResults ==
    { s \in SeqsUpTo(Paths, MaxScan) : \A i, j \in 1..Len(s) : i # j => s[i] # s[j] }

\* ------------------------------------------------------------------------
\* Helpers of the pipeline
\* ------------------------------------------------------------------------
\* CAssetsVCSStatusProvider::HasStatus(group, mask): any flag of mask is set
HasStatus(st, g, mask) == st[g] \cap mask # {}

\* a mutant: the filter asks for UpdatedRemotely only
ChangedRemotelyUpdatedOnly(st, g) == HasStatus(st, g, { UpdatedRemotely })

\* the predicate of the first partition: the group changed remotely
ChangedRemotely(st, g) == HasStatus(st, g, { UpdatedRemotely, DeletedRemotely })

\* a mutant: the negation is missing
NotDeletedRemotelyNoNegation(st, g) == HasStatus(st, g, { DeletedRemotely })

\* the predicate of the second partition: the group is not deleted remotely
NotDeletedRemotely(st, g) == ~HasStatus(st, g, { DeletedRemotely })

\* the rearrangements of a vector
Rearrangements(s) ==
    { p \in [1..Len(s) -> Range(s)] :
        \A x \in Range(s) :
            Cardinality({ i \in 1..Len(s) : p[i] = x }) =
            Cardinality({ i \in 1..Len(s) : s[i] = x }) }

\* a mutant: the elements that satisfy pred are moved to the end
PartitionSatLast(s, sat) ==
    { p \in Rearrangements(s) :
        \A i, j \in 1..Len(p) : (i < j /\ p[i] \in sat) => p[j] \in sat }

\* a mutant: the elements are rearranged without regard to pred
PartitionAnyOrder(s, sat) == Rearrangements(s)

\* std::partition(begin, end, pred), sat being the elements that satisfy pred:
\* every element of sat before every other element, in an unspecified order
Partition(s, sat) ==
    { p \in Rearrangements(s) :
        \A i, j \in 1..Len(p) : (i < j /\ p[j] \in sat) => p[i] \in sat }

\* the iterator std::partition returns, as an index from begin()
PartitionPoint(p, sat) == Cardinality({ i \in 1..Len(p) : p[i] \in sat })

\* GetAllFiles(fileGroups): the files of the groups, in group order
RECURSIVE GetAllFiles(_, _)
GetAllFiles(gs, f) ==
    IF gs = <<>> THEN <<>>
    ELSE f[Head(gs)] \o GetAllFiles(Tail(gs), f)

\* one "Import", "SetModified" pair per imported file
RECURSIVE ImportSteps(_)
ImportSteps(n) == IF n = 0 THEN <<>> ELSE <<"Import", "SetModified">> \o ImportSteps(n - 1)

RECURSIVE Repeat(_, _)
Repeat(e, n) == IF n = 0 THEN <<>> ELSE <<e>> \o Repeat(e, n - 1)

\* GetLayersFilesInFolders(folders): nothing is scanned without a folder
Scans(fl) == IF fl = <<>> THEN { <<>> } ELSE ScanResults

\* a mutant: onSync runs the caller's callback before it imports the layers
InvokeCallbackOnDoneFirst(lg) ==
    /\ callbackCount' = callbackCount + 1
    /\ pc' = "done"
    /\ IF kind = "Layers"
       THEN \E newFiles \in Scans(folders) :
              LET missing == FindMissingStrings(newFiles, originalLayerFiles, sortPolicy)
              IN  /\ newLayerFiles' = SortStricmp(newFiles, sortPolicy)
                  /\ originalLayerFiles' = SortStricmp(originalLayerFiles, sortPolicy)
                  /\ imported' = imported \o missing
                  /\ unmodified' = unmodified \o missing
                  /\ onDoneCount' = IF hasCallback THEN onDoneCount + 1 ELSE onDoneCount
                  /\ log' = lg \o <<"Callback", "Scan", "LayerDiff">>
                               \o (IF hasCallback THEN <<"OnDone">> ELSE <<>>)
                               \o ImportSteps(Len(missing))
       ELSE /\ onDoneCount' = IF hasCallback THEN onDoneCount + 1 ELSE onDoneCount
            /\ log' = lg \o <<"Callback">> \o (IF hasCallback THEN <<"OnDone">> ELSE <<>>)
            /\ UNCHANGED << newLayerFiles, originalLayerFiles, imported, unmodified >>

\* callback(): the callback object Sync holds is invoked after the steps lg.
\* For the layers overload it is onSync: scan, diff, import, caller's callback.
InvokeCallback(lg) ==
    /\ callbackCount' = callbackCount + 1
    /\ pc' = "done"
    /\ IF kind = "Layers"
       THEN \E newFiles \in Scans(folders) :
              LET missing == FindMissingStrings(newFiles, originalLayerFiles, sortPolicy)
              IN  /\ newLayerFiles' = SortStricmp(newFiles, sortPolicy)
                  /\ originalLayerFiles' = SortStricmp(originalLayerFiles, sortPolicy)
                  /\ imported' = imported \o missing
                  /\ unmodified' = unmodified \o missing
                  /\ onDoneCount' = IF hasCallback THEN onDoneCount + 1 ELSE onDoneCount
                  /\ log' = lg \o <<"Callback", "Scan", "LayerDiff">> \o ImportSteps(Len(missing))
                               \o (IF hasCallback THEN <<"OnDone">> ELSE <<>>)
       ELSE /\ onDoneCount' = IF hasCallback THEN onDoneCount + 1 ELSE onDoneCount
            /\ log' = lg \o <<"Callback">> \o (IF hasCallback THEN <<"OnDone">> ELSE <<>>)
            /\ UNCHANGED << newLayerFiles, originalLayerFiles, imported, unmodified >>

\* the variables InvokeCallback sets, apart from pc and log
doneVars == << callbackCount, onDoneCount, newLayerFiles, originalLayerFiles,
               imported, unmodified >>

\* CVersionControl::GetInstance().GetLatest(fs, fl, false, false, ...)
GetLatest(fs, fl) == pulls' = Append(pulls, [files |-> fs, folders |-> fl])

\* a mutant: the check of folders.empty() is missing
EmptyAfterFilterAlwaysPull(lg) ==
    /\ GetLatest(<<>>, folders)
    /\ log' = lg \o <<"PullIssued">>
    /\ pc' = "folderPullPending"
    /\ UNCHANGED << callbackCount, onDoneCount, newLayerFiles, originalLayerFiles,
                    imported, unmodified >>

\* a mutant: the callback does not wait for the pull of the folders
EmptyAfterFilterNoWait(lg) ==
    IF folders = <<>>
    THEN /\ InvokeCallback(lg)
         /\ UNCHANGED pulls
    ELSE /\ GetLatest(<<>>, folders)
         /\ InvokeCallback(lg \o <<"PullIssued">>)

\* Sync, if (pFileGroups->empty()) after the filter: nothing or the folders
EmptyAfterFilter(lg) ==
    IF folders = <<>>
    THEN /\ InvokeCallback(lg)
         /\ UNCHANGED pulls
    ELSE /\ GetLatest(<<>>, folders)
         /\ log' = lg \o <<"PullIssued">>
         /\ pc' = "folderPullPending"
         /\ UNCHANGED doneVars

\* a mutant: the callback is also invoked when the pull is issued
CompareFilesAndDownloadMissingNoElse(newFiles, lg) ==
    LET missingFiles == FindMissingStrings(newFiles, originalFiles, sortPolicy)
    IN  /\ originalFiles' = SortStricmp(originalFiles, sortPolicy)
        /\ IF missingFiles # <<>>
           THEN /\ GetLatest(missingFiles, <<>>)
                /\ callbackCount' = callbackCount + 1
                /\ onDoneCount' = IF hasCallback THEN onDoneCount + 1 ELSE onDoneCount
                /\ log' = lg \o <<"Diff", "PullIssued", "Callback">>
                /\ pc' = "narrowPullPending"
                /\ UNCHANGED << newLayerFiles, originalLayerFiles, imported, unmodified >>
           ELSE /\ InvokeCallback(lg \o <<"Diff">>)
                /\ UNCHANGED pulls

\* a mutant: the narrow pull is given the folders again
CompareFilesAndDownloadMissingWithFolders(newFiles, lg) ==
    LET missingFiles == FindMissingStrings(newFiles, originalFiles, sortPolicy)
    IN  /\ originalFiles' = SortStricmp(originalFiles, sortPolicy)
        /\ IF missingFiles # <<>>
           THEN /\ GetLatest(missingFiles, folders)
                /\ log' = lg \o <<"Diff", "PullIssued">>
                /\ pc' = "narrowPullPending"
                /\ UNCHANGED doneVars
           ELSE /\ InvokeCallback(lg \o <<"Diff">>)
                /\ UNCHANGED pulls

\* CompareFilesAndDownloadMissing(newFiles, originalFiles, callback)
CompareFilesAndDownloadMissing(newFiles, lg) ==
    LET missingFiles == FindMissingStrings(newFiles, originalFiles, sortPolicy)
    IN  /\ originalFiles' = SortStricmp(originalFiles, sortPolicy)
        /\ IF missingFiles # <<>>
           THEN /\ GetLatest(missingFiles, <<>>)
                /\ log' = lg \o <<"Diff", "PullIssued">>
                /\ pc' = "narrowPullPending"
                /\ UNCHANGED doneVars
           ELSE /\ InvokeCallback(lg \o <<"Diff">>)
                /\ UNCHANGED pulls

\* ------------------------------------------------------------------------
\* Initial states
\* ------------------------------------------------------------------------
InitPipeline ==
    /\ sortPolicy \in SortPolicies
    /\ status = [g \in Groups |-> {}]
    /\ pc = "idle"
    /\ kind = "none"
    /\ callGroups = <<>>
    /\ fileGroups = <<>>
    /\ afterFilter = <<>>
    /\ folders = <<>>
    /\ hasCallback = FALSE
    /\ originalFiles = <<>>
    /\ firstDeletedIndex = 0
    /\ pulls = <<>>
    /\ pullResults = <<>>
    /\ updated = <<>>
    /\ callbackCount = 0
    /\ onDoneCount = 0
    /\ originalLayerFiles = <<>>
    /\ newLayerFiles = <<>>
    /\ imported = <<>>
    /\ unmodified = <<>>
    /\ log = <<>>

\* a call that has not been made
NoCall ==
    [ pc |-> "idle", fileGroups |-> <<>>, folders |-> <<>>, originalFiles |-> <<>>,
      firstDeletedIndex |-> 0, pulls |-> <<>>, callbackCount |-> 0 ]

InitNoCalls ==
    /\ calls = [s \in Sessions |-> NoCall]
    /\ actor = 0

InitNoFindMissing ==
    /\ vec1 = <<>>
    /\ vec2 = <<>>
    /\ arg1 = <<>>
    /\ arg2 = <<>>
    /\ missingStrings = <<>>
    /\ fmDone = FALSE

Init ==
    /\ InitPipeline
    /\ files \in [Groups -> FileLists]
    /\ InitNoFindMissing
    /\ InitNoCalls

\* ------------------------------------------------------------------------
\* CAssetsVCSSynchronizer::Sync(fileGroups, folders, callback)
\* ------------------------------------------------------------------------
CallSync ==
    /\ pc = "idle"
    /\ \E gs \in GroupLists, fl \in FolderLists, cb \in BOOLEAN :
        /\ kind' = "Sync"
        /\ callGroups' = gs
        /\ fileGroups' = gs
        /\ folders' = fl
        /\ hasCallback' = cb
        /\ log' = log \o <<"RefreshIssued">>
        /\ pc' = "statusPending"
    /\ UNCHANGED << sortPolicy, files, status, afterFilter, originalFiles,
                    firstDeletedIndex, pulls, pullResults, updated, doneVars >>
    /\ UNCHANGED fmVars
    /\ UNCHANGED twoVars

\* CAssetsVCSSynchronizer::Sync(layers, folders, callback)
CallSyncLayers ==
    /\ pc = "idle"
    /\ \E gs \in LayerGroupLists, fl \in FolderLists, cb \in BOOLEAN :
        \E scan \in Scans(fl) :
            /\ kind' = "Layers"
            /\ originalLayerFiles' = scan
            /\ callGroups' = gs
            /\ fileGroups' = gs
            /\ folders' = fl
            /\ hasCallback' = cb
            /\ log' = log \o <<"LayerSnapshot", "RefreshIssued">>
            /\ pc' = "statusPending"
    /\ UNCHANGED << sortPolicy, files, status, afterFilter, originalFiles,
                    firstDeletedIndex, pulls, pullResults, updated, callbackCount,
                    onDoneCount, newLayerFiles, imported, unmodified >>
    /\ UNCHANGED fmVars
    /\ UNCHANGED twoVars

\* the lambda given to CAssetsVCSStatusProvider::UpdateStatus: runs when the
\* status refresh of the groups has completed
StatusDone ==
    /\ pc = "statusPending"
    /\ \E st \in [Groups -> SUBSET StatusFlags] :
        /\ \A g \in Groups \ Range(fileGroups) : st[g] = status[g]
        /\ status' = st
        /\ LET changed == { g \in Groups : ChangedRemotely(st, g) }
               notDeleted == { g \in Groups : NotDeletedRemotely(st, g) }
           IN  \E p1 \in Partition(fileGroups, changed) :
                 LET kept == SubSeq(p1, 1, PartitionPoint(p1, changed))
                     lg == log \o <<"RefreshDone", "Filter">>
                 IN  /\ afterFilter' = kept
                     /\ IF kept = <<>>
                        THEN /\ fileGroups' = kept
                             /\ UNCHANGED << originalFiles, firstDeletedIndex >>
                             /\ EmptyAfterFilter(lg)
                        ELSE \E p2 \in Partition(kept, notDeleted) :
                               /\ fileGroups' = p2
                               /\ firstDeletedIndex' = PartitionPoint(p2, notDeleted)
                               /\ originalFiles' = GetAllFiles(p2, files)
                               /\ GetLatest(GetAllFiles(p2, files), folders)
                               /\ log' = lg \o <<"Partition", "Snapshot", "PullIssued">>
                               /\ pc' = "broadPullPending"
                               /\ UNCHANGED doneVars
    /\ UNCHANGED << sortPolicy, files, kind, callGroups, folders, hasCallback,
                    pullResults, updated >>
    /\ UNCHANGED fmVars
    /\ UNCHANGED twoVars

\* the lambda given to GetLatest({}, folders, ...)
FolderPullDone ==
    /\ pc = "folderPullPending"
    /\ \E result \in PullOutcomes :
        /\ pullResults' = Append(pullResults, result)
        /\ InvokeCallback(log \o <<"PullDone">>)
    /\ UNCHANGED << sortPolicy, files, status, kind, callGroups, fileGroups, afterFilter, folders,
                    hasCallback, originalFiles, firstDeletedIndex, pulls, updated >>
    /\ UNCHANGED fmVars
    /\ UNCHANGED twoVars

\* a mutant: a failed pull ends the run with the callback
BroadPullDoneStopsOnFailure ==
    /\ pc = "broadPullPending"
    /\ \E result \in PullOutcomes, nf \in [Groups -> FileLists] :
        /\ \A g \in Groups \ Range(fileGroups) : nf[g] = files[g]
        /\ pullResults' = Append(pullResults, result)
        /\ IF result = "failure"
           THEN /\ nf = files
                /\ InvokeCallback(log \o <<"PullDone">>)
                /\ UNCHANGED << files, updated, fileGroups, pulls, originalFiles >>
           ELSE /\ files' = nf
                /\ updated' = updated \o fileGroups
                /\ LET remaining == IF firstDeletedIndex # Len(fileGroups)
                                    THEN SubSeq(fileGroups, 1, firstDeletedIndex)
                                    ELSE fileGroups
                       lg == log \o <<"PullDone">> \o Repeat("Update", Len(fileGroups))
                                 \o (IF firstDeletedIndex # Len(fileGroups)
                                     THEN <<"Excise">> ELSE <<>>)
                   IN  /\ fileGroups' = remaining
                       /\ IF remaining = <<>>
                          THEN /\ InvokeCallback(lg)
                               /\ UNCHANGED << pulls, originalFiles >>
                          ELSE CompareFilesAndDownloadMissing(GetAllFiles(remaining, nf), lg)
    /\ UNCHANGED << sortPolicy, status, kind, callGroups, afterFilter, folders,
                    hasCallback, firstDeletedIndex >>
    /\ UNCHANGED fmVars
    /\ UNCHANGED twoVars

\* a mutant: the deleted groups are erased before the Update() loop
BroadPullDoneExciseFirst ==
    /\ pc = "broadPullPending"
    /\ \E result \in PullOutcomes, nf \in [Groups -> FileLists] :
        LET remaining == IF firstDeletedIndex # Len(fileGroups)
                         THEN SubSeq(fileGroups, 1, firstDeletedIndex)
                         ELSE fileGroups
            lg == log \o <<"PullDone">>
                      \o (IF firstDeletedIndex # Len(fileGroups)
                          THEN <<"Excise">> ELSE <<>>)
                      \o Repeat("Update", Len(remaining))
        IN  /\ \A g \in Groups \ Range(remaining) : nf[g] = files[g]
            /\ files' = nf
            /\ pullResults' = Append(pullResults, result)
            /\ updated' = updated \o remaining
            /\ fileGroups' = remaining
            /\ IF remaining = <<>>
               THEN /\ InvokeCallback(lg)
                    /\ UNCHANGED << pulls, originalFiles >>
               ELSE CompareFilesAndDownloadMissing(GetAllFiles(remaining, nf), lg)
    /\ UNCHANGED << sortPolicy, status, kind, callGroups, afterFilter, folders,
                    hasCallback, firstDeletedIndex >>
    /\ UNCHANGED fmVars
    /\ UNCHANGED twoVars

\* a mutant: the erase of the deleted groups is missing
BroadPullDoneNoExcise ==
    /\ pc = "broadPullPending"
    /\ \E result \in PullOutcomes, nf \in [Groups -> FileLists] :
        /\ \A g \in Groups \ Range(fileGroups) : nf[g] = files[g]
        /\ files' = nf
        /\ pullResults' = Append(pullResults, result)
        /\ updated' = updated \o fileGroups
        /\ LET lg == log \o <<"PullDone">> \o Repeat("Update", Len(fileGroups))
           IN  /\ fileGroups' = fileGroups
               /\ IF fileGroups = <<>>
                  THEN /\ InvokeCallback(lg)
                       /\ UNCHANGED << pulls, originalFiles >>
                  ELSE CompareFilesAndDownloadMissing(GetAllFiles(fileGroups, nf), lg)
    /\ UNCHANGED << sortPolicy, status, kind, callGroups, afterFilter, folders,
                    hasCallback, firstDeletedIndex >>
    /\ UNCHANGED fmVars
    /\ UNCHANGED twoVars

\* onGetLatest, with CompareFilesAndDownloadMissing
BroadPullDone ==
    /\ pc = "broadPullPending"
    /\ \E result \in PullOutcomes, nf \in [Groups -> FileLists] :
        \* Update() re-derives the file list of each group of the list
        /\ \A g \in Groups \ Range(fileGroups) : nf[g] = files[g]
        /\ files' = nf
        /\ pullResults' = Append(pullResults, result)
        /\ updated' = updated \o fileGroups
        /\ LET remaining == IF firstDeletedIndex # Len(fileGroups)
                            THEN SubSeq(fileGroups, 1, firstDeletedIndex)
                            ELSE fileGroups
               lg == log \o <<"PullDone">> \o Repeat("Update", Len(fileGroups))
                         \o (IF firstDeletedIndex # Len(fileGroups)
                             THEN <<"Excise">> ELSE <<>>)
           IN  /\ fileGroups' = remaining
               /\ IF remaining = <<>>
                  THEN /\ InvokeCallback(lg)
                       /\ UNCHANGED << pulls, originalFiles >>
                  ELSE CompareFilesAndDownloadMissing(GetAllFiles(remaining, nf), lg)
    /\ UNCHANGED << sortPolicy, status, kind, callGroups, afterFilter, folders,
                    hasCallback, firstDeletedIndex >>
    /\ UNCHANGED fmVars
    /\ UNCHANGED twoVars

\* the lambda CompareFilesAndDownloadMissing gives to GetLatest(missingFiles, {}, ...)
NarrowPullDone ==
    /\ pc = "narrowPullPending"
    /\ \E result \in PullOutcomes :
        /\ pullResults' = Append(pullResults, result)
        /\ InvokeCallback(log \o <<"PullDone">>)
    /\ UNCHANGED << sortPolicy, files, status, kind, callGroups, fileGroups, afterFilter, folders,
                    hasCallback, originalFiles, firstDeletedIndex, pulls, updated >>
    /\ UNCHANGED fmVars
    /\ UNCHANGED twoVars

Next ==
    \/ CallSync
    \/ StatusDone
    \/ FolderPullDone
    \/ BroadPullDone
    \/ NarrowPullDone

Spec == Init /\ [][Next]_vars

\* the layers overload: the same pipeline entered through Sync(layers, ...)
NextLayers ==
    \/ CallSyncLayers
    \/ StatusDone
    \/ FolderPullDone
    \/ BroadPullDone
    \/ NarrowPullDone

InitLayers ==
    /\ InitPipeline
    /\ files \in [Groups -> FileLists]
    /\ \A g \in Groups \ LayerGroups : files[g] = <<>>
    /\ InitNoFindMissing
    /\ InitNoCalls

SpecLayers == InitLayers /\ [][NextLayers]_vars

\* ------------------------------------------------------------------------
\* FindMissingStrings called on its own, on every pair of vectors
\* ------------------------------------------------------------------------
InitFindMissing ==
    /\ InitPipeline
    /\ files = [g \in Groups |-> <<>>]
    /\ vec1 \in SeqsUpTo(Paths, MaxLen)
    /\ vec2 \in SeqsUpTo(Paths, MaxLen)
    /\ arg1 = vec1
    /\ arg2 = vec2
    /\ missingStrings = <<>>
    /\ fmDone = FALSE
    /\ InitNoCalls

\* a mutant: the sort of vec1 is missing
CallFindMissingStringsOneSort ==
    /\ ~fmDone
    /\ vec2' = SortStricmp(vec2, sortPolicy)
    /\ vec1' = vec1
    /\ missingStrings' = SetDifference(vec1, SortStricmp(vec2, sortPolicy))
    /\ fmDone' = TRUE
    /\ UNCHANGED << arg1, arg2, sortPolicy >>
    /\ UNCHANGED syncVars
    /\ UNCHANGED twoVars

\* FindMissingStrings(vec1, vec2): both vectors are sorted in place
CallFindMissingStrings ==
    /\ ~fmDone
    /\ vec2' = SortStricmp(vec2, sortPolicy)
    /\ vec1' = SortStricmp(vec1, sortPolicy)
    /\ missingStrings' = FindMissingStrings(vec1, vec2, sortPolicy)
    /\ fmDone' = TRUE
    /\ UNCHANGED << arg1, arg2, sortPolicy >>
    /\ UNCHANGED syncVars
    /\ UNCHANGED twoVars

NextFindMissing == CallFindMissingStrings

SpecFindMissing == InitFindMissing /\ [][NextFindMissing]_vars

\* ------------------------------------------------------------------------
\* Several Sync calls in flight: each call has its own closures, the groups
\* (their files and statuses) are the shared IFilesGroupProvider objects
\* ------------------------------------------------------------------------
\* a mutant: the closures of every call point to one and the same vector
SetCallSharedVector(s, c) ==
    [t \in Sessions |->
        IF t = s THEN c ELSE [calls[t] EXCEPT !.fileGroups = c.fileGroups]]

\* pFileGroups = std::make_shared<...>(std::move(fileGroups)) and the by-copy
\* captures: the step of call s writes the state of call s and of no other
SetCall(s, c) == [calls EXCEPT ![s] = c]

\* callback(), for the call whose closures hold c
InvokeCallbackTwo(c) == [c EXCEPT !.callbackCount = @ + 1, !.pc = "done"]

\* GetLatest(fs, fl, false, false, ...), the call then waits at nextPc
GetLatestTwo(c, fs, fl, nextPc) ==
    [c EXCEPT !.pulls = Append(@, [files |-> fs, folders |-> fl]), !.pc = nextPc]

\* CAssetsVCSSynchronizer::Sync(fileGroups, folders, callback), call s
CallSyncTwo(s) ==
    /\ calls[s].pc = "idle"
    /\ \E gs \in CallGroupLists, fl \in FolderLists :
        calls' = SetCall(s, [calls[s] EXCEPT !.pc = "statusPending",
                                             !.fileGroups = gs,
                                             !.folders = fl])
    /\ actor' = s
    /\ UNCHANGED << sortPolicy, files, status, soloVars >>
    /\ UNCHANGED fmVars

\* the lambda call s gave to UpdateStatus
StatusDoneTwo(s) ==
    /\ calls[s].pc = "statusPending"
    /\ \E st \in [Groups -> SUBSET StatusFlags] :
        /\ \A g \in Groups \ Range(calls[s].fileGroups) : st[g] = status[g]
        /\ status' = st
        /\ LET c == calls[s]
               changed == { g \in Groups : ChangedRemotely(st, g) }
               notDeleted == { g \in Groups : NotDeletedRemotely(st, g) }
           IN  \E p1 \in Partition(c.fileGroups, changed) :
                 LET kept == SubSeq(p1, 1, PartitionPoint(p1, changed))
                     ck == [c EXCEPT !.fileGroups = kept]
                 IN  IF kept = <<>>
                     THEN calls' = SetCall(s,
                              IF c.folders = <<>>
                              THEN InvokeCallbackTwo(ck)
                              ELSE GetLatestTwo(ck, <<>>, c.folders, "folderPullPending"))
                     ELSE \E p2 \in Partition(kept, notDeleted) :
                            calls' = SetCall(s,
                                GetLatestTwo(
                                    [c EXCEPT !.fileGroups = p2,
                                              !.firstDeletedIndex = PartitionPoint(p2, notDeleted),
                                              !.originalFiles = GetAllFiles(p2, files)],
                                    GetAllFiles(p2, files), c.folders, "broadPullPending"))
    /\ actor' = s
    /\ UNCHANGED << sortPolicy, files, soloVars >>
    /\ UNCHANGED fmVars

\* the lambda call s gave to GetLatest({}, folders, ...)
FolderPullDoneTwo(s) ==
    /\ calls[s].pc = "folderPullPending"
    /\ calls' = SetCall(s, InvokeCallbackTwo(calls[s]))
    /\ actor' = s
    /\ UNCHANGED << sortPolicy, files, status, soloVars >>
    /\ UNCHANGED fmVars

\* onGetLatest of call s, with CompareFilesAndDownloadMissing
BroadPullDoneTwo(s) ==
    /\ calls[s].pc = "broadPullPending"
    /\ \E nf \in [Groups -> FileLists] :
        \* Update() re-derives the file list of each group of the list
        /\ \A g \in Groups \ Range(calls[s].fileGroups) : nf[g] = files[g]
        /\ files' = nf
        /\ LET c == calls[s]
               remaining == IF c.firstDeletedIndex # Len(c.fileGroups)
                            THEN SubSeq(c.fileGroups, 1, c.firstDeletedIndex)
                            ELSE c.fileGroups
               missingFiles == FindMissingStrings(GetAllFiles(remaining, nf),
                                                  c.originalFiles, sortPolicy)
               cd == [c EXCEPT !.fileGroups = remaining,
                               !.originalFiles = SortStricmp(c.originalFiles, sortPolicy)]
           IN  calls' = SetCall(s,
                   IF remaining = <<>>
                   THEN InvokeCallbackTwo([c EXCEPT !.fileGroups = remaining])
                   ELSE IF missingFiles # <<>>
                        THEN GetLatestTwo(cd, missingFiles, <<>>, "narrowPullPending")
                        ELSE InvokeCallbackTwo(cd))
    /\ actor' = s
    /\ UNCHANGED << sortPolicy, status, soloVars >>
    /\ UNCHANGED fmVars

\* the lambda CompareFilesAndDownloadMissing of call s gave to GetLatest
NarrowPullDoneTwo(s) ==
    /\ calls[s].pc = "narrowPullPending"
    /\ calls' = SetCall(s, InvokeCallbackTwo(calls[s]))
    /\ actor' = s
    /\ UNCHANGED << sortPolicy, files, status, soloVars >>
    /\ UNCHANGED fmVars

NextTwo ==
    \/ \E s \in Sessions : CallSyncTwo(s)
    \/ \E s \in Sessions : StatusDoneTwo(s)
    \/ \E s \in Sessions : FolderPullDoneTwo(s)
    \/ \E s \in Sessions : BroadPullDoneTwo(s)
    \/ \E s \in Sessions : NarrowPullDoneTwo(s)

\* fairness: the status refresh and every issued pull of every call complete
SpecTwo ==
    /\ Init
    /\ [][NextTwo]_vars
    /\ \A s \in Sessions :
          /\ WF_vars(StatusDoneTwo(s))
          /\ WF_vars(FolderPullDoneTwo(s))
          /\ WF_vars(BroadPullDoneTwo(s))
          /\ WF_vars(NarrowPullDoneTwo(s))

\* fairness: the status refresh and every issued pull complete
SpecFair ==
    /\ Init
    /\ [][Next]_vars
    /\ WF_vars(StatusDone)
    /\ WF_vars(FolderPullDone)
    /\ WF_vars(BroadPullDone)
    /\ WF_vars(NarrowPullDone)

\* ------------------------------------------------------------------------
\* Properties
\* ------------------------------------------------------------------------
Count(s, x) == Cardinality({ i \in 1..Len(s) : s[i] = x })

\* the indices at which the step e was taken
Steps(e) == { i \in 1..Len(log) : log[i] = e }

EqualNoCase(x, y) == Stricmp(x, y) = 0

\* the elements of cur that no element of base equals, ignoring case
AbsentNoCase(cur, base) ==
    { x \in Range(cur) : \A y \in Range(base) : ~EqualNoCase(x, y) }

\* C4: FindMissing(current, baseline) returns exactly the elements of current
\* that no element of baseline equals under case-insensitive comparison.
C4_CaseInsensitiveSubtraction ==
    fmDone => Range(missingStrings) = AbsentNoCase(arg1, arg2)

\* C10: FindMissing(A, A) is empty, and FindMissing(A, []) holds every element
\* of A as often as A does and nothing else.
C10_SelfAndEmptyBaseline ==
    fmDone =>
        /\ (arg1 = arg2 => missingStrings = <<>>)
        /\ (arg2 = <<>> => \A x \in Paths : Count(missingStrings, x) = Count(arg1, x))

C10_Witness ==
    /\ fmDone
    /\ arg1 = arg2
    /\ Len(arg1) = MaxLen
    /\ \E x, y \in Range(arg1) : x # y /\ EqualNoCase(x, y)

\* no group the caller passed changed remotely, once the refresh has completed
Refreshed == pc \notin { "idle", "statusPending" }
NoGroupChanged == \A g \in Range(callGroups) : ~ChangedRemotely(status, g)

\* the step e was taken, and only after a step d
After(e, d) == \A i \in Steps(e) : \E j \in Steps(d) : j < i

\* C1: the completion callback of a Sync call is invoked exactly once: never
\* twice, and eventually on every branch, given that the status refresh and
\* every issued pull complete.
C1_CallbackExactlyOnce ==
    /\ [](callbackCount <= 1)
    /\ [](pc = "statusPending" => <>(pc = "done" /\ callbackCount = 1))

C1_Witness ==
    /\ pc = "done"
    /\ callbackCount = 1
    /\ Len(pulls) = 2

\* C2: the narrow pull carries exactly the files of the surviving groups that
\* are absent, ignoring case, from originalFiles; without such a file there is
\* no narrow pull.
C2_NarrowPullExactlyNew ==
    Steps("Diff") # {} =>
        LET new == AbsentNoCase(GetAllFiles(fileGroups, files), originalFiles)
        IN  IF new = {}
            THEN Len(pulls) = 1
            ELSE Len(pulls) = 2 /\ Range(pulls[2].files) = new

\* C3: no file of the broad pull is in the file list of the narrow pull.
C3_PullsDisjoint ==
    Len(pulls) = 2 => Range(pulls[1].files) \cap Range(pulls[2].files) = {}

\* C5: when no group changed remotely and folders is empty, Sync pulls
\* nothing, updates no group and invokes the callback once, after the status
\* refresh has completed.
C5_NothingToSync ==
    (Refreshed /\ NoGroupChanged /\ folders = <<>>) =>
        /\ pc = "done"
        /\ pulls = <<>>
        /\ updated = <<>>
        /\ callbackCount = 1
        /\ Cardinality(Steps("Callback")) = 1
        /\ After("Callback", "RefreshDone")

C5_Witness ==
    /\ pc = "done"
    /\ Len(callGroups) = MaxGroups
    /\ NoGroupChanged
    /\ folders = <<>>
    /\ callbackCount = 1

\* C6: when no group changed remotely and folders is not empty, Sync issues
\* exactly one pull, of no file and the caller's folders, and invokes the
\* callback only after that pull has completed.
C6_FoldersOnly ==
    (Refreshed /\ NoGroupChanged /\ folders # <<>>) =>
        /\ pulls = << [files |-> <<>>, folders |-> folders] >>
        /\ updated = <<>>
        /\ \/ pc = "folderPullPending" /\ callbackCount = 0 /\ Steps("Callback") = {}
           \/ /\ pc = "done"
              /\ callbackCount = 1
              /\ Steps("PullDone") # {}
              /\ After("Callback", "PullDone")

C6_Witness ==
    /\ pc = "done"
    /\ callGroups # <<>>
    /\ NoGroupChanged
    /\ folders # <<>>
    /\ callbackCount = 1

\* C7: when the narrow-pull diff is made, the working list holds no group that
\* was DeletedRemotely at the deletion partition and every other kept group.
C7_DeletedExcisedBeforeDiff ==
    Steps("Diff") # {} =>
        \A g \in Groups :
            Count(fileGroups, g) =
                IF DeletedRemotely \in status[g] THEN 0 ELSE Count(afterFilter, g)

C7_Witness ==
    /\ Steps("Diff") # {}
    /\ \E g \in Range(afterFilter) : DeletedRemotely \in status[g]
    /\ fileGroups # <<>>

\* C8: the layers overload imports exactly the layer files of the scan after
\* the sync that are absent, ignoring case, from the scan before it, each once,
\* and calls SetModified(false) on each imported layer.
C8_ImportsExactlyNewLayers ==
    (kind = "Layers" /\ pc = "done") =>
        /\ Range(imported) = AbsentNoCase(newLayerFiles, originalLayerFiles)
        /\ \A x \in Range(imported) : Count(imported, x) = 1
        /\ \A x \in Range(imported) : x \notin Range(originalLayerFiles)
        /\ unmodified = imported

\* C9: the layer snapshot is taken before the status refresh is issued, no
\* layer is imported before Sync has signalled completion, and the caller's
\* callback runs once, after the last import, or not at all when none was
\* passed.
C9_LayerOrder ==
    kind = "Layers" =>
        /\ Len(log) >= 2
        /\ log[1] = "LayerSnapshot"
        /\ log[2] = "RefreshIssued"
        /\ Steps("LayerSnapshot") = {1}
        /\ Steps("RefreshIssued") = {2}
        /\ After("Import", "Callback")
        /\ Cardinality(Steps("Import")) = Len(imported)
        /\ pc # "done" => (onDoneCount = 0 /\ imported = <<>> /\ Steps("OnDone") = {})
        /\ pc = "done" =>
              IF hasCallback
              THEN onDoneCount = 1 /\ Steps("OnDone") = { Len(log) }
              ELSE onDoneCount = 0 /\ Steps("OnDone") = {}

C9_Witness ==
    /\ kind = "Layers"
    /\ pc = "done"
    /\ hasCallback
    /\ imported # <<>>

\* the vectors that differ from v only in the letter case of their elements
CaseVariants(v) ==
    { w \in [1..Len(v) -> Paths] : \A i \in 1..Len(v) : EqualNoCase(w[i], v[i]) }

LowerSet(v) == { LowerStr(x) : x \in Range(v) }

\* C11: the set of paths FindMissing(A, B) returns is the same for every
\* reordering of A and of B, for every order the sort leaves equal paths in,
\* and, up to letter case, for every replacement of a path by one that differs
\* from it only in letter case.
C11_OrderAndCaseInvariant ==
    fmDone =>
        /\ \A p1 \in Rearrangements(arg1), p2 \in Rearrangements(arg2), pol \in SortPolicies :
              Range(FindMissingStrings(p1, p2, pol)) = Range(missingStrings)
        /\ \A q1 \in CaseVariants(arg1), q2 \in CaseVariants(arg2) :
              LowerSet(FindMissingStrings(q1, q2, sortPolicy)) = LowerSet(missingStrings)

IsSortedNoCase(v) == \A i, j \in 1..Len(v) : i < j => ~LessStricmp(v[j], v[i])

\* C13 as stated: after FindMissing returns, both arguments hold the same
\* elements in the same order as before the call.
C13_NoSideEffects ==
    fmDone => (vec1 = arg1 /\ vec2 = arg2)

\* C13 as amended: FindMissing sorts both arguments in place: after it
\* returns each argument holds the elements it held before, each as often, in
\* non-decreasing case-insensitive order.
C13_ArgumentsSortedInPlace ==
    fmDone =>
        /\ vec1 \in Rearrangements(arg1)
        /\ vec2 \in Rearrangements(arg2)
        /\ IsSortedNoCase(vec1)
        /\ IsSortedNoCase(vec2)

C13_Witness ==
    /\ fmDone
    /\ vec1 # arg1
    /\ vec2 # arg2

\* the broad pull was issued and has completed
BroadPullCompleted == Steps("Snapshot") # {} /\ pc # "broadPullPending"

\* C12: whatever the pulls report, after the broad pull Sync updates every
\* kept group, excises the deleted ones and computes the narrow pull, and the
\* callback is invoked exactly once when the run is done.
C12_PullOutcomeIgnored ==
    /\ BroadPullCompleted =>
          /\ Len(pullResults) >= 1
          /\ updated \in Rearrangements(afterFilter)
          /\ Cardinality(Steps("Update")) = Len(afterFilter)
          /\ \A g \in Groups :
                Count(fileGroups, g) =
                    IF DeletedRemotely \in status[g] THEN 0 ELSE Count(afterFilter, g)
          /\ fileGroups # <<>> <=> Steps("Diff") # {}
    /\ pc = "done" => (callbackCount = 1 /\ Len(pullResults) = Len(pulls))
    /\ pc # "done" => callbackCount = 0

C12_Witness ==
    /\ pc = "done"
    /\ Len(pulls) = 2
    /\ pullResults = <<"failure", "failure">>
    /\ callbackCount = 1

\* every step d was taken before every step e
Before(d, e) == \A i \in Steps(d), j \in Steps(e) : i < j

\* the pulls issued, and the pulls completed, before step i
IssuedBefore(i) == Cardinality({ j \in Steps("PullIssued") : j < i })
CompletedBefore(i) == Cardinality({ j \in Steps("PullDone") : j < i })

\* C14: the steps of a Sync run are ordered: the refresh completes before any
\* status is read or any pull is issued; the snapshot precedes the broad pull;
\* every kept group is updated after the broad pull has completed and before
\* any group is excised; the narrow pull follows every Update() and the
\* excision; the callback follows the completion of the last issued pull.
C14_StepsOrdered ==
    /\ After("Filter", "RefreshDone")
    /\ After("Partition", "RefreshDone")
    /\ After("PullIssued", "RefreshDone")
    /\ Before("RefreshIssued", "RefreshDone")
    /\ Before("Snapshot", "PullIssued")
    /\ After("Update", "PullDone")
    /\ Before("Update", "Excise")
    /\ BroadPullCompleted =>
          /\ updated \in Rearrangements(afterFilter)
          /\ Cardinality(Steps("Update")) = Len(afterFilter)
          /\ (\E g \in Range(afterFilter) : DeletedRemotely \in status[g])
                => Steps("Excise") # {}
    /\ Before("Update", "Diff")
    /\ Before("Excise", "Diff")
    /\ \A i \in Steps("PullIssued") :
          (\E j \in Steps("Diff") : j < i) =>
              (\A k \in Steps("Update") \cup Steps("Excise") : k < i)
    /\ \A c \in Steps("Callback") :
          /\ IssuedBefore(c) = Len(pulls)
          /\ CompletedBefore(c) = Len(pulls)

C14_Witness ==
    /\ pc = "done"
    /\ Len(pulls) = 2
    /\ Steps("Excise") # {}
    /\ Cardinality(Steps("Update")) = MaxGroups

\* group g is flagged UpdatedRemotely or DeletedRemotely
Flagged(g) == UpdatedRemotely \in status[g] \/ DeletedRemotely \in status[g]

\* the caller's groups that are flagged, in the caller's order
FlaggedGroups == SelectSeq(callGroups, Flagged)

SameElements(v, w) ==
    /\ Len(v) = Len(w)
    /\ \A x \in Range(v) \cup Range(w) : Count(v, x) = Count(w, x)

\* C15: when a group survives the filter, the broad pull is issued once, with
\* the pre-pull files of exactly the flagged groups (each file as often as
\* they list it) and the caller's folders; Update() is never called on a
\* group the filter dropped.
C15_BroadPullFiles ==
    (Refreshed /\ FlaggedGroups # <<>>) =>
        /\ Cardinality(Steps("Snapshot")) = 1
        /\ Len(pulls) >= 1
        /\ pulls[1].folders = folders
        /\ SameElements(pulls[1].files, originalFiles)
        /\ pc = "broadPullPending" =>
              /\ Len(pulls) = 1
              /\ SameElements(pulls[1].files, GetAllFiles(FlaggedGroups, files))
        /\ \A i \in 1..Len(pulls) : i > 1 => (pulls[i].folders = <<>> /\ Steps("Diff") # {})
        /\ \A g \in Range(updated) : Flagged(g)
        /\ BroadPullCompleted => SameElements(updated, FlaggedGroups)

C15_Witness ==
    /\ pc = "done"
    /\ Len(callGroups) = MaxGroups
    /\ \E g \in Range(callGroups) : ~Flagged(g)
    /\ \E g \in Range(callGroups) : status[g] = { DeletedRemotely } /\ g \in Range(updated)
    /\ pulls[1].files # <<>>

IsDeleted(g) == DeletedRemotely \in status[g]
IsNotDeleted(g) == DeletedRemotely \notin status[g]

\* C16 as stated: both partitions are stable: the kept groups keep the order
\* of the caller's list, and after the deletion partition the not-deleted
\* groups and the deleted groups each keep their order.
C16_PartitionsStable ==
    Refreshed =>
        /\ afterFilter = FlaggedGroups
        /\ pc = "broadPullPending" =>
              fileGroups = SelectSeq(afterFilter, IsNotDeleted) \o SelectSeq(afterFilter, IsDeleted)

\* C16 as amended: both partitions separate the groups without keeping their
\* order: the filter keeps exactly the flagged groups of the caller's list,
\* each as often as listed, in some order; the deletion partition keeps those
\* groups, puts every not-deleted group before every deleted one, and
\* firstDeletedIndex is the number of not-deleted groups.
C16_PartitionsSeparate ==
    Refreshed =>
        /\ SameElements(afterFilter, FlaggedGroups)
        /\ pc = "broadPullPending" =>
              /\ SameElements(fileGroups, afterFilter)
              /\ \A i, j \in 1..Len(fileGroups) :
                    (i < j /\ IsNotDeleted(fileGroups[j])) => IsNotDeleted(fileGroups[i])
              /\ firstDeletedIndex =
                    Cardinality({ i \in 1..Len(fileGroups) : IsNotDeleted(fileGroups[i]) })

C16_Witness ==
    /\ pc = "broadPullPending"
    /\ Len(afterFilter) = MaxGroups
    /\ afterFilter # FlaggedGroups
    /\ \E g \in Range(fileGroups) : IsDeleted(g)
    /\ \E g \in Range(fileGroups) : IsNotDeleted(g)

\* some group survives the filter and every surviving group is deleted remotely
AllKeptDeleted ==
    /\ Refreshed
    /\ FlaggedGroups # <<>>
    /\ \A g \in Range(FlaggedGroups) : IsDeleted(g)

\* C17: when every group that survives the filter is DeletedRemotely, Sync
\* issues the broad pull (their files and the folders) and no other pull,
\* removes all groups once it has completed and then invokes the callback.
C17_AllDeleted ==
    AllKeptDeleted =>
        /\ Len(pulls) = 1
        /\ pulls[1].folders = folders
        /\ pulls[1].files = originalFiles
        /\ firstDeletedIndex = 0
        /\ \/ /\ pc = "broadPullPending"
              /\ callbackCount = 0
              /\ SameElements(pulls[1].files, GetAllFiles(FlaggedGroups, files))
           \/ /\ pc = "done"
              /\ fileGroups = <<>>
              /\ callbackCount = 1
              /\ Steps("Diff") = {}
              /\ Steps("Excise") # {}
              /\ Before("PullDone", "Excise")
              /\ Before("Excise", "Callback")

C17_Witness ==
    /\ AllKeptDeleted
    /\ pc = "done"
    /\ Len(FlaggedGroups) = MaxGroups
    /\ pulls[1].files # <<>>
    /\ folders # <<>>

\* C18: a Sync run issues at most two pulls; non-empty folders go to the
\* first pull and to no later one; a narrow pull has no folders and at least
\* one file.
C18_PullShapes ==
    /\ Len(pulls) <= 2
    /\ (pc = "done" /\ folders # <<>>) => Len(pulls) >= 1
    /\ (pulls # <<>> /\ folders # <<>>) => pulls[1].folders = folders
    /\ \A i \in 1..Len(pulls) :
          i > 1 => /\ pulls[i].folders = <<>>
                   /\ pulls[i].files # <<>>
                   /\ Steps("Diff") # {}
    /\ (pulls # <<>> /\ Steps("Snapshot") = {}) => (Len(pulls) = 1 /\ pulls[1].files = <<>>)

C18_Witness ==
    /\ pc = "done"
    /\ Len(pulls) = 2
    /\ folders # <<>>

\* the groups a run excises after the broad pull: updated, then not kept
Excised == Range(updated) \ Range(fileGroups)

\* C19: the outcome of Sync is fixed by the groups, statuses and folders,
\* whatever order the two partitions leave the groups in: the set of files of
\* the broad pull, the set of groups excised after it and the set of groups
\* left for the diff are those of the flagged groups of the caller's list.
C19_OutcomeOrderIndependent ==
    (Refreshed /\ FlaggedGroups # <<>>) =>
        /\ pc = "broadPullPending" =>
              /\ Range(pulls[1].files) = Range(GetAllFiles(FlaggedGroups, files))
              /\ pulls[1].folders = folders
        /\ pc # "broadPullPending" =>
              /\ Excised = { g \in Range(FlaggedGroups) : IsDeleted(g) }
              /\ Range(fileGroups) = { g \in Range(FlaggedGroups) : IsNotDeleted(g) }
              /\ Len(fileGroups) = Len(SelectSeq(FlaggedGroups, IsNotDeleted))

C19_Witness ==
    /\ pc = "done"
    /\ afterFilter # FlaggedGroups
    /\ Excised # {}
    /\ fileGroups # <<>>
    /\ Len(pulls) = 2

\* call s is waiting for a completion
InFlight(s) == calls[s].pc \notin { "idle", "done" }

\* the closure state of call s that the steps of the call work on
Owned(c) == << c.fileGroups, c.originalFiles, c.firstDeletedIndex >>

\* C20: with several Sync calls in flight, also over lists that share groups,
\* each call's callback is invoked exactly once (never twice, and eventually,
\* given that its refresh and pulls complete), and the working list, the
\* snapshot and the deletion boundary of a call change only in a step of
\* that call.
C20_CallsIndependent ==
    /\ [](\A s \in Sessions : /\ calls[s].callbackCount <= 1
                              /\ calls[s].pc = "done" <=> calls[s].callbackCount = 1)
    /\ \A s \in Sessions :
          [](InFlight(s) => <>(calls[s].pc = "done" /\ calls[s].callbackCount = 1))
    /\ [][\A s \in Sessions : Owned(calls'[s]) # Owned(calls[s]) => actor' = s]_vars

C20_Witness ==
    /\ \A s \in Sessions : calls[s].pc = "narrowPullPending"
    /\ \A s, t \in Sessions : Range(calls[s].fileGroups) \cap Range(calls[t].fileGroups) # {}

====
